---- MODULE Spec2Model ----
(***************************************************************************)
(* GoogleDriveClient (lib/core/gdocs/google-drive-client.js): the image    *)
(* folder, the session cache, the persisted googleDrive state and the two  *)
(* resolve operations uploadImage / uploadRemoteImage, one action per      *)
(* await point of the code.                                                *)
(***************************************************************************)
EXTENDS Integers, Sequences, FiniteSets, TLC

\* ------------------------------------------------------------------ bounds
\* Drive resources (folders and files) that can be created in one behaviour.
MaxFiles == 3
\* Disturbances in one behaviour: a failing call (backend, state store, file
\* system), a crash, or a Drive resource trashed or deleted out-of-band.
MaxEvents == 1

\* docs, 7.2 Performance Tuning: DOCFLU_RETRY_COUNT=3 (API retry attempts)
DOCFLU_RETRY_COUNT == 3

NoId == 0

\* ------------------------------------------------------- the asset universe
\* sharp(svg).png(): the PNG rendering of SVG bytes.
PngOf(bytes) == "PNG(" \o bytes \o ")"

\* Local image files of the project: a diagram as SVG and the PNG export of
\* the same diagram, so both resolve to the same bytes once converted.
PathA == [dir |-> "docs", stem |-> "a", ext |-> ".png"]
PathD == [dir |-> "docs", stem |-> "d", ext |-> ".svg"]
NoPath == [dir |-> "", stem |-> "", ext |-> ""]
LocalPaths == {PathA, PathD}

SourceBytes(p) ==
    IF p = PathD THEN "S1" ELSE PngOf("S1")

\* A remote image: the same SVG behind a url.
Urls == {"https://h/d.svg"}

\* The body axios.get streams.
UrlBody(u) == "S1"

\* response.headers['content-type']
UrlContentType(u) == "image/svg+xml"

\* path.extname(new URL(imageUrl).pathname)
UrlPathExt(u) == ".svg"

\* crypto.createHash('sha256').update(x).digest('hex'): collision free on
\* the modelled inputs, and never the input itself.
sha256(x) == "sha256:" \o x

\* ---------------------------------------------------------- small helpers
EmptyMap == [k \in {} |-> k]

Has(m, k) == k \in DOMAIN m

Put(m, k, v) == (k :> v) @@ m

Count(s, x) == Cardinality({i \in DOMAIN s : s[i] = x})

\* `https://drive.google.com/uc?export=download&id=${file.data.id}`
PublicUrl(id) == <<"https://drive.google.com/uc?export=download&id=", id>>

NoEntry == [fileId |-> NoId, url |-> <<>>, hash |-> ""]

NoGoogleDrive == [absent |-> TRUE]

\* ---------------------------------------------------------------- state
VARIABLES
    drive,          \* Google Drive: sequence of resources, index = file id
    pstate,         \* the persisted state read and written by stateManager
    uploadedImages, \* this.uploadedImages: session cache, key -> entry
    imageFolderId,  \* this.imageFolderId
    ipc,            \* position of initialize / ensureImageFolder
    icur,           \* ensureImageFolder's currentState snapshot
    call,           \* per resolve call: position and locals
    disk,           \* .docusaurus/temp: path -> bytes of the files present
    uploads,        \* this run's files.create calls for images: id, key, bytes
    events,         \* disturbances so far
    docs,           \* the source tree: document path -> content hash
    remote,         \* the page backend: sequence of resources, index = id
    sstate,         \* SyncState: the containers and pages maps
    pass            \* the orchestrator's pass: mode, position and locals

\* The variables of the sync orchestrator and those of the Drive client.
syncVars == <<docs, remote, sstate, pass>>

clientVars == <<drive, pstate, uploadedImages, imageFolderId, ipc, icur, call,
                disk, uploads>>

vars == <<drive, pstate, uploadedImages, imageFolderId, ipc, icur, call, disk,
          uploads, events, docs, remote, sstate, pass>>

\* The call slots of the client. A pass that awaits each resolve call before
\* it starts the next one has one slot; callers that start resolve calls in
\* parallel have one slot per call.
Procs == DOMAIN call

PassSlots == {"pass"}

\* A call succeeds, or it fails and counts against MaxEvents.
Ok == UNCHANGED events

Fault == events < MaxEvents /\ events' = events + 1

\* ----------------------------------------------------------- Google Drive
DriveIds == DOMAIN drive

\* The resources that were trashed or deleted.
GoneIds == {id \in DriveIds : drive[id].status # "live"}

\* drive.files.create: the resource gets the next id.
NewId == Len(drive) + 1

DriveCreate(kind) ==
    Append(drive, [kind |-> kind, status |-> "live", public |-> FALSE])

\* drive.permissions.create({role: 'reader', type: 'anyone'})
DriveSetPublic(id) == [drive EXCEPT ![id].public = TRUE]

\* Mutant of FilesGet: the trashed flag of the answer is not looked at.
FilesGet_IgnoreTrashed(id) ==
    IF id \notin DriveIds \/ drive[id].status = "deleted" THEN "throws"
    ELSE "live"

\* drive.files.get(fileId, fields: trashed): what the awaiting code sees.
\* A deleted file makes the call throw (not found).
FilesGet(id) ==
    IF id \notin DriveIds \/ drive[id].status = "deleted" THEN "throws"
    ELSE IF drive[id].status = "trashed" THEN "trashed"
    ELSE "live"

\* ------------------------------------------------------- persisted state
\* state.googleDrive?.imageFolderId
StateFolderId(state) ==
    IF state.googleDrive = NoGoogleDrive THEN NoId
    ELSE state.googleDrive.imageFolderId

\* state.googleDrive?.uploadedImages (|| {})
StateImages(state) ==
    IF state.googleDrive = NoGoogleDrive THEN EmptyMap
    ELSE state.googleDrive.uploadedImages

\* stateManager.updateState(partial): deep merge of partial into the state.
UpdateState(state, partial) ==
    [googleDrive |->
        [imageFolderId |-> partial.imageFolderId,
         uploadedImages |-> partial.uploadedImages @@ StateImages(state)]]

\* -------------------------------------------------------------- the calls
\* Besides the code's locals a call keeps: via (the branch that returned),
\* err (what it threw), hashArg (the imageHash argument as passed),
\* goneAtStart (the Drive ids already gone when it was called) and log (the
\* backend and state-store calls it made, in order).
IdleCall ==
    [pc |-> "idle", fn |-> "", imageUrl |-> "", imagePath |-> NoPath,
     imageHash |-> "", processedImagePath |-> NoPath,
     tempFilePath |-> NoPath, uploadedImage |-> NoEntry, fileId |-> NoId,
     currentState |-> [googleDrive |-> NoGoogleDrive],
     result |-> NoEntry, cached |-> FALSE, via |-> "", err |-> "",
     hashArg |-> "", goneAtStart |-> {}, log |-> <<>>]

\* ------------------------------------------------- the sync orchestrator
\* Page-backend resources (containers and pages) that can be created in one
\* behaviour.
MaxRemote == 5

\* The configured root container identifier.
RootId == 0

\* The source tree of the example scenario, in the order of the scan.
DocOrder == <<"intro.md", "a/b/two.md">>

DocPaths == {DocOrder[i] : i \in DOMAIN DocOrder}

\* The hierarchy path of a document: the keys (full path from the root) of
\* its containers, root to immediate parent.
HierarchyPath(d) ==
    IF d = "a/one.md" THEN <<"a">>
    ELSE IF d = "a/b/two.md" THEN <<"a", "a/b">>
    ELSE <<>>

\* A source edit: the content of a document after it.
Revised(content) == IF content = "v1" THEN "v2" ELSE content

\* The content hash of a document: the digest of its bytes.
ContentHash(d) == sha256(docs[d])

NoPage == [remoteId |-> RootId, contentHash |-> ""]

\* Mutant of Classify: a document with an entry is unchanged, whatever its
\* hash.
Classify_IgnoresHash(d, state) ==
    IF ~Has(state.pages, d) THEN "new" ELSE "unchanged"

\* classify(document, state) -> {new, changed, unchanged}
Classify(d, state) ==
    IF ~Has(state.pages, d) THEN "new"
    ELSE IF state.pages[d].contentHash = ContentHash(d) THEN "unchanged"
    ELSE "changed"

\* No pass has run yet. Besides its locals the pass keeps: before (the pages
\* map when it started), log (the backend and state-store calls it made, in
\* order, with the document and the parent id named), class and outcome per
\* document, clean (it started right after a docs pass that completed
\* without a failure, with nothing changed since) and settled (the same,
\* for the next pass).
IdlePass ==
    [mode |-> "none", pc |-> "idle", todo |-> <<>>, cur |-> "",
     chain |-> <<>>, parent |-> RootId, prior |-> NoPage, newId |-> RootId,
     class |-> EmptyMap, outcome |-> EmptyMap, before |-> EmptyMap,
     log |-> <<>>, clean |-> FALSE, settled |-> FALSE]

SyncInit ==
    /\ docs = [d \in DocPaths |-> "v1"]
    /\ remote = <<>>
    /\ sstate = [containers |-> EmptyMap, pages |-> EmptyMap]
    /\ pass = IdlePass

Init ==
    /\ drive = <<>>
    /\ pstate = [googleDrive |-> NoGoogleDrive]
    /\ uploadedImages = EmptyMap
    /\ imageFolderId = NoId
    /\ ipc = "new"
    /\ icur = [googleDrive |-> NoGoogleDrive]
    /\ call = [p \in PassSlots |-> IdleCall]
    /\ disk = EmptyMap
    /\ uploads = <<>>
    /\ events = 0
    /\ SyncInit

\* ------------------------------------------------ initialize / ensureImageFolder
\* initialize -> ensureImageFolder: loadState, this.imageFolderId = recorded id.
EnsureLoad ==
    /\ ipc = "new"
    /\ \/ /\ Ok
          /\ imageFolderId' = StateFolderId(pstate)
          /\ ipc' = IF StateFolderId(pstate) # NoId THEN "ensure_get"
                    ELSE "ensure_create"
       \/ /\ Fault
          /\ ipc' = "failed"
          /\ UNCHANGED imageFolderId
    /\ UNCHANGED syncVars
    /\ UNCHANGED <<drive, pstate, uploadedImages, icur, call, disk, uploads>>

\* Mutant of EnsureGet: the recorded folder id is returned without looking at
\* what files.get answered.
EnsureGet_TrustsRecorded ==
    /\ ipc = "ensure_get"
    /\ Ok
    /\ ipc' = "ready"
    /\ UNCHANGED syncVars
    /\ UNCHANGED <<drive, pstate, uploadedImages, imageFolderId, icur, call,
                   disk, uploads>>

\* Verify folder still exists: files.get of the recorded folder id; a
\* trashed folder and a throwing call both set this.imageFolderId = null.
EnsureGet ==
    /\ ipc = "ensure_get"
    /\ \E out \in {FilesGet(imageFolderId), "error"} :
          /\ IF out = "error" THEN Fault ELSE Ok
          /\ IF out = "live"
             THEN /\ ipc' = "ready"
                  /\ UNCHANGED imageFolderId
             ELSE /\ ipc' = "ensure_create"
                  /\ imageFolderId' = NoId
    /\ UNCHANGED syncVars
    /\ UNCHANGED <<drive, pstate, uploadedImages, icur, call, disk, uploads>>

\* drive.files.create of the folder; this.imageFolderId = folder.data.id
EnsureCreate ==
    /\ ipc = "ensure_create"
    /\ \/ /\ Ok
          /\ Len(drive) < MaxFiles
          /\ drive' = DriveCreate("folder")
          /\ imageFolderId' = NewId
          /\ ipc' = "ensure_perm"
       \/ /\ Fault
          /\ ipc' = "failed"
          /\ UNCHANGED <<drive, imageFolderId>>
    /\ UNCHANGED syncVars
    /\ UNCHANGED <<pstate, uploadedImages, icur, call, disk, uploads>>

\* Make folder publicly viewable.
EnsurePerm ==
    /\ ipc = "ensure_perm"
    /\ \/ /\ Ok
          /\ drive' = DriveSetPublic(imageFolderId)
          /\ ipc' = "ensure_load2"
       \/ /\ Fault
          /\ ipc' = "failed"
          /\ UNCHANGED drive
    /\ UNCHANGED syncVars
    /\ UNCHANGED <<pstate, uploadedImages, imageFolderId, icur, call, disk, uploads>>

\* const currentState = await this.stateManager.loadState()
EnsureLoad2 ==
    /\ ipc = "ensure_load2"
    /\ \/ /\ Ok
          /\ icur' = pstate
          /\ ipc' = "ensure_update"
       \/ /\ Fault
          /\ ipc' = "failed"
          /\ UNCHANGED icur
    /\ UNCHANGED syncVars
    /\ UNCHANGED <<drive, pstate, uploadedImages, imageFolderId, call, disk, uploads>>

\* Save folder ID to state immediately; initialize then returns true.
EnsureUpdate ==
    /\ ipc = "ensure_update"
    /\ \/ /\ Ok
          /\ pstate' = UpdateState(pstate,
                 [imageFolderId |-> imageFolderId,
                  uploadedImages |-> StateImages(icur)])
          /\ ipc' = "ready"
       \/ /\ Fault
          /\ ipc' = "failed"
          /\ UNCHANGED pstate
    /\ UNCHANGED syncVars
    /\ UNCHANGED <<drive, uploadedImages, imageFolderId, icur, call, disk, uploads>>

\* ------------------------------------------------------ image conversion
\* What can happen inside convertImageForGoogleDocs for an SVG input:
\* require('sharp') throws, sharp writes the PNG, or sharp / ensureDir fails.
ConvertOutcomes == {"no_sharp", "converted", "failed"}

\* path.join(tempDir, `${baseName}.png`)
PngPath(p) == [dir |-> "temp", stem |-> p.stem, ext |-> ".png"]

\* const isSvg = ext === '.svg' || contentType === 'image/svg+xml'
IsSvg(p, contentType) == p.ext = ".svg" \/ contentType = "image/svg+xml"

\* Mutant of convertImageForGoogleDocs: a failing conversion is not caught.
convertImageForGoogleDocs_Rethrows(imagePath, contentType, outcome) ==
    IF ~IsSvg(imagePath, contentType)
    THEN [path |-> imagePath, wrote |-> FALSE, threw |-> FALSE]
    ELSE IF outcome = "converted"
    THEN [path |-> PngPath(imagePath), wrote |-> TRUE, threw |-> FALSE]
    ELSE [path |-> imagePath, wrote |-> FALSE, threw |-> outcome = "failed"]

\* convertImageForGoogleDocs(imagePath, contentType): the returned path,
\* whether the PNG was written, and whether the function threw.
convertImageForGoogleDocs(imagePath, contentType, outcome) ==
    IF ~IsSvg(imagePath, contentType)
    THEN [path |-> imagePath, wrote |-> FALSE, threw |-> FALSE]
    ELSE IF outcome = "converted"
    THEN [path |-> PngPath(imagePath), wrote |-> TRUE, threw |-> FALSE]
    ELSE [path |-> imagePath, wrote |-> FALSE, threw |-> FALSE]

\* The bytes a read of the path yields ("" when the file is missing).
ReadBytes(p) ==
    IF p.dir = "docs" THEN SourceBytes(p)
    ELSE IF Has(disk, p) THEN disk[p] ELSE ""

\* getExtensionFromMimeType(mimeType): extensions[mimeType] || '.jpg'
getExtensionFromMimeType(mimeType) ==
    IF mimeType = "image/svg+xml" THEN ".svg"
    ELSE IF mimeType = "image/png" THEN ".png"
    ELSE ".jpg"

\* ------------------------------------------------- steps shared by both resolves
Key(p) == call[p].imageHash

InProgress(p) == call[p].pc \notin {"idle", "returned", "threw"}

\* Nothing is in flight: initialize and every resolve call have returned or
\* thrown.
Quiescent ==
    /\ ipc \in {"ready", "failed"}
    /\ \A p \in Procs : ~InProgress(p)

\* A finished call: what the caller sees, and what the call left behind.
\* The locals that go out of scope are dropped.
Finished(c) ==
    [c EXCEPT !.imagePath = NoPath, !.fileId = NoId,
              !.currentState = [googleDrive |-> NoGoogleDrive]]

Threw(c, err, op) ==
    Finished([c EXCEPT !.pc = "threw", !.err = err, !.log = Append(@, op)])

\* Mutant of SessionLookup: the state is loaded before the session cache is
\* looked at.
SessionLookup_LoadsFirst(c, missPc) ==
    IF Has(uploadedImages, c.imageHash)
    THEN Finished([c EXCEPT !.pc = "returned",
                            !.result = uploadedImages[c.imageHash],
                            !.cached = TRUE, !.via = "session",
                            !.log = Append(@, "loadState")])
    ELSE [c EXCEPT !.pc = missPc]

\* if (this.uploadedImages.has(hash)) return { ...cachedResult, cached: true }
\* else continue at missPc.
SessionLookup(c, missPc) ==
    IF Has(uploadedImages, c.imageHash)
    THEN Finished([c EXCEPT !.pc = "returned",
                            !.result = uploadedImages[c.imageHash],
                            !.cached = TRUE, !.via = "session"])
    ELSE [c EXCEPT !.pc = missPc]

\* const state = await loadState(); uploadedImage = state...uploadedImages?.[hash]
CheckPersistentState(p, getPc, missPc) ==
    /\ \/ /\ Ok
          /\ call' = [call EXCEPT ![p] =
               IF Has(StateImages(pstate), Key(p))
               THEN [@ EXCEPT !.pc = getPc, !.log = Append(@, "loadState"),
                              !.uploadedImage = StateImages(pstate)[Key(p)]]
               ELSE [@ EXCEPT !.pc = missPc, !.log = Append(@, "loadState")]]
       \/ /\ Fault
          /\ call' = [call EXCEPT ![p] = Threw(@, "io", "loadState")]
    /\ UNCHANGED syncVars
    /\ UNCHANGED <<drive, pstate, uploadedImages, imageFolderId, ipc, icur,
                   disk, uploads>>

\* Mutant of Adopt: the recorded entry is returned but not put into the
\* session cache.
Adopt_NoCacheSet(c) ==
    [cache |-> uploadedImages,
     call |-> Finished([c EXCEPT !.pc = "returned",
                                 !.result = c.uploadedImage,
                                 !.cached = TRUE, !.via = "persisted",
                                 !.log = Append(@, "files.get")])]

\* if (!file.data.trashed): this.uploadedImages.set(hash, uploadedImage);
\* return { ...uploadedImage, cached: true }
Adopt(c) ==
    [cache |-> Put(uploadedImages, c.imageHash, c.uploadedImage),
     call |-> Finished([c EXCEPT !.pc = "returned",
                                 !.result = c.uploadedImage,
                                 !.cached = TRUE, !.via = "persisted",
                                 !.log = Append(@, "files.get")])]

\* Verify image still exists in Drive: files.get, then adopt, or fall through
\* to the upload when the file is trashed or the call throws.
VerifyRecorded(p, missPc) ==
    /\ \E out \in {FilesGet(call[p].uploadedImage.fileId), "error"} :
          /\ IF out = "error" THEN Fault ELSE Ok
          /\ IF out = "live"
             THEN /\ uploadedImages' = Adopt(call[p]).cache
                  /\ call' = [call EXCEPT ![p] = Adopt(call[p]).call]
             ELSE /\ call' = [call EXCEPT ![p].pc = missPc,
                                          ![p].log = Append(@, "files.get")]
                  /\ UNCHANGED uploadedImages
    /\ UNCHANGED syncVars
    /\ UNCHANGED <<drive, pstate, imageFolderId, ipc, icur, disk, uploads>>

\* const file = await this.drive.files.create({parents: [imageFolderId], media})
\* media.body = fs.createReadStream(processedImagePath)
UploadFile(p, nextPc) ==
    /\ \/ /\ Ok
          /\ Len(drive) < MaxFiles
          /\ \/ call[p].processedImagePath.dir = "docs"
             \/ Has(disk, call[p].processedImagePath)
          /\ drive' = DriveCreate("file")
          /\ uploads' = Append(uploads,
                [id |-> NewId, key |-> Key(p),
                 bytes |-> ReadBytes(call[p].processedImagePath)])
          /\ call' = [call EXCEPT ![p].pc = nextPc, ![p].fileId = NewId,
                                  ![p].log = Append(@, "files.create")]
       \/ /\ Fault
          /\ call' = [call EXCEPT ![p] = Threw(@, "transient", "files.create")]
          /\ UNCHANGED <<drive, uploads>>
    /\ UNCHANGED syncVars
    /\ UNCHANGED <<pstate, uploadedImages, imageFolderId, ipc, icur, disk>>

\* Mutant of UploadResult: the stored entry carries the cached flag of the
\* returned object.
UploadResult_WithCached(c) ==
    [fileId |-> c.fileId, url |-> PublicUrl(c.fileId), hash |-> c.imageHash,
     cached |-> FALSE]

\* const uploadResult = { url: publicUrl, fileId: file.data.id, hash, ... }
UploadResult(c) ==
    [fileId |-> c.fileId, url |-> PublicUrl(c.fileId), hash |-> c.imageHash]

\* const currentState = await this.stateManager.loadState()
LoadCurrentState(p, nextPc) ==
    /\ \/ /\ Ok
          /\ call' = [call EXCEPT ![p].pc = nextPc, ![p].currentState = pstate,
                                  ![p].log = Append(@, "loadState")]
       \/ /\ Fault
          /\ call' = [call EXCEPT ![p] = Threw(@, "io", "loadState")]
    /\ UNCHANGED syncVars
    /\ UNCHANGED <<drive, pstate, uploadedImages, imageFolderId, ipc, icur,
                   disk, uploads>>

\* Mutant of SaveToState: the spread comes after [hash]: uploadResult, so an
\* entry already recorded for the key wins over the new one.
SaveToState_OldEntryWins(p) ==
    /\ \/ /\ Ok
          /\ pstate' = UpdateState(pstate,
                 [imageFolderId |-> imageFolderId,
                  uploadedImages |-> StateImages(call[p].currentState)
                                     @@ (Key(p) :> call[p].result)])
          /\ call' = [call EXCEPT ![p] =
                 Finished([@ EXCEPT !.pc = "returned", !.cached = FALSE,
                                    !.via = "upload",
                                    !.log = Append(@, "updateState")])]
       \/ /\ Fault
          /\ call' = [call EXCEPT ![p] = Threw(@, "io", "updateState")]
          /\ UNCHANGED pstate
    /\ UNCHANGED syncVars
    /\ UNCHANGED <<drive, uploadedImages, imageFolderId, ipc, icur, disk, uploads>>

\* await updateState({googleDrive: {...currentState.googleDrive, imageFolderId,
\*   uploadedImages: {...currentState...uploadedImages, [hash]: uploadResult}}})
\* return { ...uploadResult, cached: false }
SaveToState(p) ==
    /\ \/ /\ Ok
          /\ pstate' = UpdateState(pstate,
                 [imageFolderId |-> imageFolderId,
                  uploadedImages |-> Put(StateImages(call[p].currentState),
                                         Key(p), call[p].result)])
          /\ call' = [call EXCEPT ![p] =
                 Finished([@ EXCEPT !.pc = "returned", !.cached = FALSE,
                                    !.via = "upload",
                                    !.log = Append(@, "updateState")])]
       \/ /\ Fault
          /\ call' = [call EXCEPT ![p] = Threw(@, "io", "updateState")]
          /\ UNCHANGED pstate
    /\ UNCHANGED syncVars
    /\ UNCHANGED <<drive, uploadedImages, imageFolderId, ipc, icur, disk, uploads>>

\* ------------------------------------------------------------- uploadImage
\* A caller passes no imageHash, or the digest it took of the source file.
CallerHashes(path) == {"", sha256(SourceBytes(path))}

\* uploadImage(imagePath, imageHash) up to its first await.
UploadImageCall(path, h) ==
    [IdleCall EXCEPT !.pc = "ui_convert", !.fn = "uploadImage",
                     !.imagePath = path, !.imageHash = h,
                     !.hashArg = h, !.goneAtStart = GoneIds]

UI_Start(p) ==
    /\ ipc = "ready"
    /\ ~InProgress(p)
    /\ \E path \in LocalPaths : \E h \in CallerHashes(path) :
          call' = [call EXCEPT ![p] = UploadImageCall(path, h)]
    /\ UNCHANGED syncVars
    /\ UNCHANGED <<drive, pstate, uploadedImages, imageFolderId, ipc, icur,
                   disk, uploads, events>>

\* const processedImagePath = await this.convertImageForGoogleDocs(imagePath)
UI_Convert(p) ==
    /\ call[p].pc = "ui_convert"
    /\ \E outcome \in ConvertOutcomes :
          LET r == convertImageForGoogleDocs(call[p].imagePath, "", outcome)
          IN /\ disk' = IF r.wrote
                        THEN Put(disk, r.path, PngOf(ReadBytes(call[p].imagePath)))
                        ELSE disk
             /\ call' = [call EXCEPT ![p] =
                    IF r.threw THEN Threw(@, "conversion", "convert")
                    ELSE [@ EXCEPT !.pc = "ui_hash",
                                   !.processedImagePath = r.path]]
    /\ UNCHANGED syncVars
    /\ UNCHANGED <<drive, pstate, uploadedImages, imageFolderId, ipc, icur,
                   uploads, events>>

\* Mutant of HashOfImage: the digest is taken of the original file.
HashOfImage_OfOriginal(c) ==
    IF c.imageHash # "" THEN c.imageHash
    ELSE sha256(ReadBytes(c.imagePath))

\* Generate hash if not provided (use processed image for hash)
HashOfImage(c) ==
    IF c.imageHash # "" THEN c.imageHash
    ELSE sha256(ReadBytes(c.processedImagePath))

\* if (!imageHash) { readFile; sha256 }, then the session cache check
UI_Hash(p) ==
    /\ call[p].pc = "ui_hash"
    /\ \/ /\ Ok
          /\ call' = [call EXCEPT ![p] =
               SessionLookup([@ EXCEPT !.imageHash = HashOfImage(call[p])],
                             "ui_load")]
       \/ /\ call[p].imageHash = ""
          /\ Fault
          /\ call' = [call EXCEPT ![p] = Threw(@, "io", "readFile")]
    /\ UNCHANGED syncVars
    /\ UNCHANGED <<drive, pstate, uploadedImages, imageFolderId, ipc, icur,
                   disk, uploads>>

UI_Load(p) ==
    /\ call[p].pc = "ui_load"
    /\ CheckPersistentState(p, "ui_get", "ui_create")

UI_Get(p) ==
    /\ call[p].pc = "ui_get"
    /\ VerifyRecorded(p, "ui_create")

UI_Create(p) ==
    /\ call[p].pc = "ui_create"
    /\ UploadFile(p, "ui_perm")

\* Mutant of UI_Perm: the upload result is not put into the session cache.
UI_Perm_NoCacheSet(p) ==
    /\ call[p].pc = "ui_perm"
    /\ \/ /\ Ok
          /\ drive' = DriveSetPublic(call[p].fileId)
          /\ call' = [call EXCEPT ![p].pc = "ui_load2",
                                  ![p].result = UploadResult(call[p]),
                                  ![p].log = Append(@, "permissions.create")]
       \/ /\ Fault
          /\ call' = [call EXCEPT ![p] =
                 Threw(@, "transient", "permissions.create")]
          /\ UNCHANGED drive
    /\ UNCHANGED syncVars
    /\ UNCHANGED <<pstate, uploadedImages, imageFolderId, ipc, icur, disk, uploads>>

\* permissions.create; uploadResult; this.uploadedImages.set(imageHash, uploadResult)
UI_Perm(p) ==
    /\ call[p].pc = "ui_perm"
    /\ \/ /\ Ok
          /\ drive' = DriveSetPublic(call[p].fileId)
          /\ uploadedImages' = Put(uploadedImages, Key(p), UploadResult(call[p]))
          /\ call' = [call EXCEPT ![p].pc = "ui_load2",
                                  ![p].result = UploadResult(call[p]),
                                  ![p].log = Append(@, "permissions.create")]
       \/ /\ Fault
          /\ call' = [call EXCEPT ![p] =
                 Threw(@, "transient", "permissions.create")]
          /\ UNCHANGED <<drive, uploadedImages>>
    /\ UNCHANGED syncVars
    /\ UNCHANGED <<pstate, imageFolderId, ipc, icur, disk, uploads>>

UI_Load2(p) ==
    /\ call[p].pc = "ui_load2"
    /\ LoadCurrentState(p, "ui_update")

UI_Update(p) ==
    /\ call[p].pc = "ui_update"
    /\ SaveToState(p)

\* ------------------------------------------------------- uploadRemoteImage
\* const tempFileName = `remote-${urlHash.substring(0, 8)}${extension}`
TempFilePath(urlHash, extension) ==
    [dir |-> "temp", stem |-> "remote-" \o urlHash, ext |-> extension]

\* urlHash = sha256(imageUrl), then the session cache check
UR_Start(p) ==
    /\ ipc = "ready"
    /\ ~InProgress(p)
    /\ \E u \in Urls :
          call' = [call EXCEPT ![p] =
              SessionLookup([IdleCall EXCEPT !.fn = "uploadRemoteImage",
                                             !.imageUrl = u,
                                             !.imageHash = sha256(u),
                                             !.goneAtStart = GoneIds],
                            "ur_load")]
    /\ UNCHANGED syncVars
    /\ UNCHANGED <<drive, pstate, uploadedImages, imageFolderId, ipc, icur,
                   disk, uploads, events>>

UR_Load(p) ==
    /\ call[p].pc = "ur_load"
    /\ CheckPersistentState(p, "ur_get", "ur_download")

UR_Get(p) ==
    /\ call[p].pc = "ur_get"
    /\ VerifyRecorded(p, "ur_download")

\* axios.get(imageUrl), extension from the content type, pipe to the temp
\* file: the request fails, or the write fails and leaves a partial file.
UR_Download(p) ==
    /\ call[p].pc = "ur_download"
    /\ LET u == call[p].imageUrl
           tmp == TempFilePath(Key(p),
                      getExtensionFromMimeType(UrlContentType(u)))
       IN \/ /\ Ok
             /\ disk' = Put(disk, tmp, UrlBody(u))
             /\ call' = [call EXCEPT ![p].pc = "ur_convert",
                                     ![p].tempFilePath = tmp,
                                     ![p].log = Append(@, "download")]
          \/ /\ Fault
             /\ call' = [call EXCEPT ![p] = Threw(@, "transient", "download")]
             /\ UNCHANGED disk
          \/ /\ Fault
             /\ disk' = Put(disk, tmp, "")
             /\ call' = [call EXCEPT ![p] =
                    Threw([@ EXCEPT !.tempFilePath = tmp], "io", "download")]
    /\ UNCHANGED syncVars
    /\ UNCHANGED <<drive, pstate, uploadedImages, imageFolderId, ipc, icur,
                   uploads>>

\* isSvgFromUrl = urlPath.endsWith('.svg') || extension === '.svg'
\* convertImageForGoogleDocs(tempFilePath, isSvgFromUrl ? 'image/svg+xml' : contentType)
UR_Convert(p) ==
    /\ call[p].pc = "ur_convert"
    /\ \E outcome \in ConvertOutcomes :
          LET u == call[p].imageUrl
              isSvgFromUrl == UrlPathExt(u) = ".svg"
                              \/ call[p].tempFilePath.ext = ".svg"
              r == convertImageForGoogleDocs(call[p].tempFilePath,
                       IF isSvgFromUrl THEN "image/svg+xml"
                       ELSE UrlContentType(u), outcome)
          IN /\ disk' = IF r.wrote
                        THEN Put(disk, r.path,
                                 PngOf(ReadBytes(call[p].tempFilePath)))
                        ELSE disk
             /\ call' = [call EXCEPT ![p] =
                    IF r.threw THEN Threw(@, "conversion", "convert")
                    ELSE [@ EXCEPT !.pc = "ur_create",
                                   !.processedImagePath = r.path]]
    /\ UNCHANGED syncVars
    /\ UNCHANGED <<drive, pstate, uploadedImages, imageFolderId, ipc, icur,
                   uploads, events>>

UR_Create(p) ==
    /\ call[p].pc = "ur_create"
    /\ UploadFile(p, "ur_perm")

\* Mutant of UR_Perm: a failing permissions.create is caught and the call
\* goes on with the upload result.
UR_Perm_Swallows(p) ==
    /\ call[p].pc = "ur_perm"
    /\ \/ /\ Ok
          /\ drive' = DriveSetPublic(call[p].fileId)
       \/ /\ Fault
          /\ UNCHANGED drive
    /\ call' = [call EXCEPT ![p].pc = "ur_cleanup",
                            ![p].result = UploadResult(call[p]),
                            ![p].log = Append(@, "permissions.create")]
    /\ UNCHANGED syncVars
    /\ UNCHANGED <<pstate, uploadedImages, imageFolderId, ipc, icur, disk, uploads>>

\* permissions.create; uploadResult
UR_Perm(p) ==
    /\ call[p].pc = "ur_perm"
    /\ \/ /\ Ok
          /\ drive' = DriveSetPublic(call[p].fileId)
          /\ call' = [call EXCEPT ![p].pc = "ur_cleanup",
                                  ![p].result = UploadResult(call[p]),
                                  ![p].log = Append(@, "permissions.create")]
       \/ /\ Fault
          /\ call' = [call EXCEPT ![p] =
                 Threw(@, "transient", "permissions.create")]
          /\ UNCHANGED drive
    /\ UNCHANGED syncVars
    /\ UNCHANGED <<pstate, uploadedImages, imageFolderId, ipc, icur, disk, uploads>>

Remove(d, paths) == [x \in DOMAIN d \ paths |-> d[x]]

\* Cleanup temp files (a failing fs.remove is caught and only warned about),
\* then this.uploadedImages.set(urlHash, uploadResult)
UR_Cleanup(p) ==
    /\ call[p].pc = "ur_cleanup"
    /\ \/ /\ Ok
          /\ disk' = Remove(disk, {call[p].tempFilePath,
                                   call[p].processedImagePath})
       \/ /\ Fault
          /\ UNCHANGED disk
    /\ uploadedImages' = Put(uploadedImages, Key(p), call[p].result)
    /\ call' = [call EXCEPT ![p].pc = "ur_load2"]
    /\ UNCHANGED syncVars
    /\ UNCHANGED <<drive, pstate, imageFolderId, ipc, icur, uploads>>

UR_Load2(p) ==
    /\ call[p].pc = "ur_load2"
    /\ LoadCurrentState(p, "ur_update")

UR_Update(p) ==
    /\ call[p].pc = "ur_update"
    /\ SaveToState(p)

\* ------------------------------------------------------------ environment
\* Out-of-band: somebody moves a Drive resource to the trash.
Trash ==
    /\ Fault
    /\ \E id \in DriveIds :
          /\ drive[id].status = "live"
          /\ drive' = [drive EXCEPT ![id].status = "trashed"]
    /\ UNCHANGED syncVars
    /\ UNCHANGED <<pstate, uploadedImages, imageFolderId, ipc, icur, call,
                   disk, uploads>>

\* Out-of-band: somebody deletes a Drive resource for good.
Delete ==
    /\ Fault
    /\ \E id \in DriveIds :
          /\ drive[id].status = "live"
          /\ drive' = [drive EXCEPT ![id].status = "deleted"]
    /\ UNCHANGED syncVars
    /\ UNCHANGED <<pstate, uploadedImages, imageFolderId, ipc, icur, call,
                   disk, uploads>>

\* The process ends and the next run constructs a new client: Drive, the
\* state file and the temp directory survive. A process that ends while
\* initialize or a resolve call is in progress has crashed.
NewRun ==
    /\ ipc # "new"
    /\ IF Quiescent THEN Ok ELSE Fault
    /\ uploadedImages' = EmptyMap
    /\ imageFolderId' = NoId
    /\ ipc' = "new"
    /\ icur' = [googleDrive |-> NoGoogleDrive]
    /\ call' = [p \in Procs |-> IdleCall]
    /\ uploads' = <<>>
    /\ UNCHANGED syncVars
    /\ UNCHANGED <<drive, pstate, disk>>

Next ==
    \/ EnsureLoad \/ EnsureGet \/ EnsureCreate \/ EnsurePerm
    \/ EnsureLoad2 \/ EnsureUpdate
    \/ \E p \in PassSlots :
          \/ UI_Start(p) \/ UI_Convert(p) \/ UI_Hash(p) \/ UI_Load(p)
          \/ UI_Get(p) \/ UI_Create(p) \/ UI_Perm(p) \/ UI_Load2(p)
          \/ UI_Update(p)
          \/ UR_Start(p) \/ UR_Load(p) \/ UR_Get(p) \/ UR_Download(p)
          \/ UR_Convert(p) \/ UR_Create(p) \/ UR_Perm(p) \/ UR_Cleanup(p)
          \/ UR_Load2(p) \/ UR_Update(p)
    \/ Trash \/ Delete \/ NewRun

Spec == Init /\ [][Next]_vars

\* ------------------------------------------------- resolve calls in parallel
\* docs, 7.2 Performance Tuning: DOCFLU_CONCURRENT_UPLOADS=5 (Parallel uploads)
DOCFLU_CONCURRENT_UPLOADS == 5

\* A caller that starts one resolve call more than the documented cap, e.g.
\* Promise.all over the images of a document.
FanSlots == 1..(DOCFLU_CONCURRENT_UPLOADS + 1)

\* The client has been initialised on an empty state: the image folder exists,
\* is public and is recorded. Nothing fails and nothing is trashed while the
\* calls of the fan-out run.
InitFan ==
    /\ drive = <<[kind |-> "folder", status |-> "live", public |-> TRUE]>>
    /\ pstate = UpdateState([googleDrive |-> NoGoogleDrive],
                    [imageFolderId |-> 1, uploadedImages |-> EmptyMap])
    /\ uploadedImages = EmptyMap
    /\ imageFolderId = 1
    /\ ipc = "ready"
    /\ icur = [googleDrive |-> NoGoogleDrive]
    /\ call = [p \in FanSlots |-> IdleCall]
    /\ disk = EmptyMap
    /\ uploads = <<>>
    /\ events = MaxEvents
    /\ SyncInit

\* Promise.all(slots.map(() => client.uploadImage(ref))), the references of a
\* document to one image: every call runs up to its first await before any of
\* them goes on.
FanOut ==
    /\ ipc = "ready"
    /\ \A p \in Procs : call[p].pc = "idle"
    /\ \E ref \in LocalPaths :
          call' = [p \in Procs |-> UploadImageCall(ref, "")]
    /\ UNCHANGED syncVars
    /\ UNCHANGED <<drive, pstate, uploadedImages, imageFolderId, ipc, icur,
                   disk, uploads, events>>

\* The calls of a fan-out are interchangeable: of the calls that are in the
\* same local state, the one in the lowest slot takes the next step.
First(p) == \A q \in Procs : q < p => call[q] # call[p]

Fan_Convert(p) == First(p) /\ UI_Convert(p)

Fan_Hash(p) == First(p) /\ UI_Hash(p)

Fan_Load(p) == First(p) /\ UI_Load(p)

Fan_Get(p) == First(p) /\ UI_Get(p)

Fan_Create(p) == First(p) /\ UI_Create(p)

Fan_Perm(p) == First(p) /\ UI_Perm(p)

Fan_Load2(p) == First(p) /\ UI_Load2(p)

Fan_Update(p) == First(p) /\ UI_Update(p)

NextFan ==
    \/ FanOut
    \/ \E p \in FanSlots :
          \/ Fan_Convert(p) \/ Fan_Hash(p) \/ Fan_Load(p) \/ Fan_Get(p)
          \/ Fan_Create(p) \/ Fan_Perm(p) \/ Fan_Load2(p) \/ Fan_Update(p)

SpecFan == InitFan /\ [][NextFan]_vars

\* ------------------------------------------------ two calls side by side
\* Two resolve calls of one client whose awaits interleave,
\* e.g. Promise.all([client.uploadImage(a), client.uploadImage(b)]).
ParSlots == 1..2

\* The key of docs/a.png, and the id of the file an earlier run uploaded for
\* it: the file has been deleted from Drive since, so files.get of the id
\* throws (not found).
StaleKey == sha256(SourceBytes(PathA))

LostId == MaxFiles + 1

\* A later run's client has been initialised: the image folder is live and
\* recorded, the session cache is empty, and state still records the earlier
\* upload of docs/a.png. Nothing fails and nothing is trashed while the calls
\* run.
InitPar ==
    /\ drive = <<[kind |-> "folder", status |-> "live", public |-> TRUE]>>
    /\ pstate = UpdateState([googleDrive |-> NoGoogleDrive],
                    [imageFolderId |-> 1,
                     uploadedImages |->
                        (StaleKey :> [fileId |-> LostId,
                                      url |-> PublicUrl(LostId),
                                      hash |-> StaleKey])])
    /\ uploadedImages = EmptyMap
    /\ imageFolderId = 1
    /\ ipc = "ready"
    /\ icur = [googleDrive |-> NoGoogleDrive]
    /\ call = [p \in ParSlots |-> IdleCall]
    /\ disk = EmptyMap
    /\ uploads = <<>>
    /\ events = MaxEvents
    /\ SyncInit

NextPar ==
    \E p \in ParSlots :
        \/ UI_Start(p) \/ UI_Convert(p) \/ UI_Hash(p) \/ UI_Load(p)
        \/ UI_Get(p) \/ UI_Create(p) \/ UI_Perm(p) \/ UI_Load2(p)
        \/ UI_Update(p)

SpecPar == InitPar /\ [][NextPar]_vars

\* ------------------------------------------- the orchestrator's pass
\* SCAN -> (SKIP if unchanged) -> ENSURE_HIERARCHY -> CONVERT_CONTENT ->
\* RESOLVE_MEDIA -> PUSH_REMOTE -> RECORD_STATE, one document after another.
RemoteIds == DOMAIN remote

RemoteLive(id) == id \in RemoteIds /\ remote[id].status = "live"

NewRemoteId == Len(remote) + 1

\* A backend call is issued for the current document; arg is the id the call
\* names: the parent of a create, the resource of a check, replace or delete.
Logged(ps, op, arg) ==
    Append(ps.log, [doc |-> ps.cur, op |-> op, arg |-> arg])

\* The backend calls that change the remote side.
MutatingOps ==
    {"createContainer", "createPage", "replacePageContent", "deletePage",
     "resolveMedia"}

\* Mutant of FailDoc: the failure ends the pass.
FailDoc_Aborts(ps) ==
    [ps EXCEPT !.pc = "scan", !.todo = <<>>, !.cur = "",
               !.chain = <<>>, !.parent = RootId, !.prior = NoPage,
               !.newId = RootId,
               !.outcome = Put(@, ps.cur, "failed")]

\* The per-document failure is caught at the orchestrator boundary: the
\* document counts as failed and the pass goes on with the next one.
FailDoc(ps) ==
    [ps EXCEPT !.pc = "scan", !.todo = Tail(@), !.cur = "",
               !.chain = <<>>, !.parent = RootId, !.prior = NoPage,
               !.newId = RootId,
               !.outcome = Put(@, ps.cur, "failed")]

\* ensureContainerChain: the next container of the chain is looked up in
\* state.containers; an empty chain ends the walk.
HierStep(ps) ==
    IF ps.chain = <<>> THEN [ps EXCEPT !.pc = "convert"]
    ELSE IF Has(sstate.containers, Head(ps.chain))
    THEN [ps EXCEPT !.pc = "hier_get"]
    ELSE [ps EXCEPT !.pc = "hier_create"]

\* A whole-tree (docs) pass starts.
StartDocs ==
    /\ pass.pc = "idle"
    /\ pass' = [IdlePass EXCEPT !.mode = "docs", !.pc = "scan",
                                !.todo = DocOrder, !.before = sstate.pages,
                                !.clean = pass.settled]
    /\ UNCHANGED <<docs, remote, sstate, events>>
    /\ UNCHANGED clientVars

\* A single-file (--file) pass starts: the force path.
StartFile ==
    /\ pass.pc = "idle"
    /\ \E d \in DocPaths :
          pass' = [IdlePass EXCEPT !.mode = "file", !.pc = "scan",
                                   !.todo = <<d>>, !.before = sstate.pages]
    /\ UNCHANGED <<docs, remote, sstate, events>>
    /\ UNCHANGED clientVars

\* SCAN: the next document is classified; in a docs pass an unchanged one is
\* skipped, the force path never skips and creates its page directly in the
\* root (flat structure, no hierarchy).
Scan ==
    /\ pass.pc = "scan"
    /\ pass.todo # <<>>
    /\ LET d == Head(pass.todo)
           cls == Classify(d, sstate)
       IN pass' =
            IF pass.mode = "docs" /\ cls = "unchanged"
            THEN [pass EXCEPT !.todo = Tail(@),
                              !.class = Put(@, d, cls),
                              !.outcome = Put(@, d, "skipped")]
            ELSE HierStep([pass EXCEPT !.cur = d,
                                       !.class = Put(@, d, cls),
                                       !.chain = IF pass.mode = "file"
                                                 THEN <<>>
                                                 ELSE HierarchyPath(d),
                                       !.parent = RootId])
    /\ UNCHANGED <<docs, remote, sstate, events>>
    /\ UNCHANGED clientVars

\* The pass is over: the summary is made and the pass's working data dropped.
Finish ==
    /\ pass.pc = "scan"
    /\ pass.todo = <<>>
    /\ pass' = [IdlePass EXCEPT
                  !.settled = /\ pass.mode = "docs"
                              /\ \A d \in DocPaths :
                                    /\ Has(pass.outcome, d)
                                    /\ pass.outcome[d] # "failed"]
    /\ UNCHANGED <<docs, remote, sstate, events>>
    /\ UNCHANGED clientVars

\* ENSURE_HIERARCHY: getResource of the recorded container; a live one is the
\* parent of the next level, a trashed or deleted one (or a failing check)
\* falls through to creation.
HierGet ==
    /\ pass.pc = "hier_get"
    /\ LET id == sstate.containers[Head(pass.chain)].remoteId
       IN \E out \in {RemoteLive(id), FALSE} :
             /\ IF out = RemoteLive(id) THEN Ok ELSE Fault
             /\ pass' =
                  IF out
                  THEN HierStep([pass EXCEPT !.parent = id,
                                             !.chain = Tail(@),
                                             !.log = Logged(pass, "getResource", id)])
                  ELSE [pass EXCEPT !.pc = "hier_create",
                                    !.log = Logged(pass, "getResource", id)]
    /\ UNCHANGED <<docs, remote, sstate>>
    /\ UNCHANGED clientVars

\* createContainer(parentId, name) -> id
HierCreate ==
    /\ pass.pc = "hier_create"
    /\ \/ /\ Ok
          /\ Len(remote) < MaxRemote
          /\ remote' = Append(remote,
                [kind |-> "container", parent |-> pass.parent,
                 status |-> "live"])
          /\ pass' = [pass EXCEPT !.pc = "hier_record", !.newId = NewRemoteId,
                        !.log = Logged(pass, "createContainer", pass.parent)]
       \/ /\ Fault
          /\ pass' = FailDoc(pass)
          /\ UNCHANGED remote
    /\ UNCHANGED <<docs, sstate>>
    /\ UNCHANGED clientVars

\* Mutant of HierRecord: the walk goes on with the new container as parent
\* without recording it.
HierRecord_NoRecord ==
    /\ pass.pc = "hier_record"
    /\ Ok
    /\ pass' = HierStep([pass EXCEPT !.parent = pass.newId,
                                     !.chain = Tail(@),
                                     !.newId = RootId])
    /\ UNCHANGED <<docs, remote, sstate>>
    /\ UNCHANGED clientVars

\* The new container is recorded in state.containers before the walk goes on.
HierRecord ==
    /\ pass.pc = "hier_record"
    /\ \/ /\ Ok
          /\ sstate' = [sstate EXCEPT !.containers =
                 Put(@, Head(pass.chain), [remoteId |-> pass.newId])]
          /\ pass' = HierStep([pass EXCEPT !.parent = pass.newId,
                                           !.chain = Tail(@),
                                           !.newId = RootId])
       \/ /\ Fault
          /\ pass' = FailDoc(pass)
          /\ UNCHANGED sstate
    /\ UNCHANGED <<docs, remote>>
    /\ UNCHANGED clientVars

\* CONVERT_CONTENT: render(markdown), supplied externally.
Convert ==
    /\ pass.pc = "convert"
    /\ \/ /\ Ok
          /\ pass' = [pass EXCEPT !.pc = "media"]
       \/ /\ Fault
          /\ pass' = FailDoc(pass)
    /\ UNCHANGED <<docs, remote, sstate>>
    /\ UNCHANGED clientVars

\* PUSH_REMOTE is create-if-absent / replace-content-if-present; the force
\* path deletes the prior page and creates a fresh one.
PushStep(ps) ==
    IF ~Has(sstate.pages, ps.cur) THEN [ps EXCEPT !.pc = "create"]
    ELSE IF ps.mode = "file"
    THEN [ps EXCEPT !.pc = "delete", !.prior = sstate.pages[ps.cur]]
    ELSE [ps EXCEPT !.pc = "push_get", !.prior = sstate.pages[ps.cur]]

\* RESOLVE_MEDIA: the embedded assets are resolved through the uploader.
ResolveMedia ==
    /\ pass.pc = "media"
    /\ \/ /\ Ok
          /\ pass' = PushStep([pass EXCEPT
                        !.log = Logged(pass, "resolveMedia", RootId)])
       \/ /\ Fault
          /\ pass' = FailDoc(pass)
    /\ UNCHANGED <<docs, remote, sstate>>
    /\ UNCHANGED clientVars

\* getResource of the recorded page: a missing or trashed one is treated as
\* absent.
PushGet ==
    /\ pass.pc = "push_get"
    /\ LET id == pass.prior.remoteId
       IN \E out \in {RemoteLive(id), FALSE} :
             /\ IF out = RemoteLive(id) THEN Ok ELSE Fault
             /\ pass' = [pass EXCEPT !.pc = IF out THEN "replace" ELSE "create",
                                     !.log = Logged(pass, "getResource", id)]
    /\ UNCHANGED <<docs, remote, sstate>>
    /\ UNCHANGED clientVars

\* replacePageContent(id, content): the page keeps its id; a page trashed since
\* the validity check makes the call fail.
Replace ==
    /\ pass.pc = "replace"
    /\ \/ /\ Ok
          /\ RemoteLive(pass.prior.remoteId)
          /\ pass' = [pass EXCEPT !.pc = "record",
                        !.newId = pass.prior.remoteId,
                        !.log = Logged(pass, "replacePageContent",
                                       pass.prior.remoteId)]
       \/ /\ IF RemoteLive(pass.prior.remoteId) THEN Fault ELSE Ok
          /\ pass' = FailDoc(pass)
    /\ UNCHANGED <<docs, remote, sstate>>
    /\ UNCHANGED clientVars

\* Mutant of DeletePrior: the prior page is left alone.
DeletePrior_Skipped ==
    /\ pass.pc = "delete"
    /\ Ok
    /\ pass' = [pass EXCEPT !.pc = "clear"]
    /\ UNCHANGED <<docs, remote, sstate>>
    /\ UNCHANGED clientVars

\* deletePage(priorId) on the force path
DeletePrior ==
    /\ pass.pc = "delete"
    /\ \/ /\ Ok
          /\ remote' = [remote EXCEPT ![pass.prior.remoteId].status = "deleted"]
          /\ pass' = [pass EXCEPT !.pc = "clear",
                        !.log = Logged(pass, "deletePage", pass.prior.remoteId)]
       \/ /\ Fault
          /\ pass' = FailDoc(pass)
          /\ UNCHANGED remote
    /\ UNCHANGED <<docs, sstate>>
    /\ UNCHANGED clientVars

\* The force path clears the state entry of the deleted page.
ClearEntry ==
    /\ pass.pc = "clear"
    /\ \/ /\ Ok
          /\ sstate' = [sstate EXCEPT !.pages =
                          [x \in DOMAIN @ \ {pass.cur} |-> @[x]]]
          /\ pass' = [pass EXCEPT !.pc = "create"]
       \/ /\ Fault
          /\ pass' = FailDoc(pass)
          /\ UNCHANGED sstate
    /\ UNCHANGED <<docs, remote>>
    /\ UNCHANGED clientVars

\* createPage(parentId, content) -> id
CreatePage ==
    /\ pass.pc = "create"
    /\ \/ /\ Ok
          /\ Len(remote) < MaxRemote
          /\ remote' = Append(remote,
                [kind |-> "page", parent |-> pass.parent,
                 status |-> "live"])
          /\ pass' = [pass EXCEPT !.pc = "record", !.newId = NewRemoteId,
                        !.log = Logged(pass, "createPage", pass.parent)]
       \/ /\ Fault
          /\ pass' = FailDoc(pass)
          /\ UNCHANGED remote
    /\ UNCHANGED <<docs, sstate>>
    /\ UNCHANGED clientVars

\* Mutant of RecordState: the remote id is recorded with the hash the entry
\* had before.
RecordState_StaleHash ==
    /\ pass.pc = "record"
    /\ Ok
    /\ sstate' = [sstate EXCEPT !.pages =
            Put(@, pass.cur, [remoteId |-> pass.newId,
                              contentHash |-> pass.prior.contentHash])]
    /\ pass' = [pass EXCEPT !.pc = "scan", !.todo = Tail(@), !.cur = "",
                   !.chain = <<>>, !.parent = RootId,
                   !.outcome = Put(@, pass.cur, "created")]
    /\ UNCHANGED <<docs, remote>>
    /\ UNCHANGED clientVars

\* RECORD_STATE: the content hash and the remote id are persisted together.
RecordState ==
    /\ pass.pc = "record"
    /\ \/ /\ Ok
          /\ sstate' = [sstate EXCEPT !.pages =
                 Put(@, pass.cur, [remoteId |-> pass.newId,
                                   contentHash |-> ContentHash(pass.cur)])]
          /\ pass' = [pass EXCEPT !.pc = "scan", !.todo = Tail(@), !.cur = "",
                        !.chain = <<>>, !.parent = RootId,
                        !.outcome = Put(@, pass.cur,
                            IF pass.newId = pass.prior.remoteId
                            THEN "updated" ELSE "created")]
       \/ /\ Fault
          /\ pass' = FailDoc(pass)
          /\ UNCHANGED sstate
    /\ UNCHANGED <<docs, remote>>
    /\ UNCHANGED clientVars

\* Between passes a document is edited.
Edit ==
    /\ pass.pc = "idle"
    /\ \E d \in DocPaths :
          /\ Revised(docs[d]) # docs[d]
          /\ docs' = [docs EXCEPT ![d] = Revised(@)]
    /\ pass' = [pass EXCEPT !.settled = FALSE]
    /\ UNCHANGED <<remote, sstate, events>>
    /\ UNCHANGED clientVars

\* Out-of-band: somebody trashes a container or a page.
TrashRemote ==
    /\ Fault
    /\ \E id \in RemoteIds :
          /\ remote[id].status = "live"
          /\ remote' = [remote EXCEPT ![id].status = "trashed"]
    /\ pass' = [pass EXCEPT !.settled = FALSE, !.clean = FALSE]
    /\ UNCHANGED <<docs, sstate>>
    /\ UNCHANGED clientVars

NextSync ==
    \/ StartDocs \/ StartFile \/ Scan \/ Finish
    \/ HierGet \/ HierCreate \/ HierRecord
    \/ Convert \/ ResolveMedia
    \/ PushGet \/ Replace \/ DeletePrior \/ ClearEntry \/ CreatePage
    \/ RecordState
    \/ Edit \/ TrashRemote

SpecSync == Init /\ [][NextSync]_vars

\* ================================================================ claims
\* The uploads of this run that were completed: the file was created and
\* made public, after which the code puts the result into the session cache.
Completed == {i \in DOMAIN uploads : drive[uploads[i].id].public}

Returned(p) == call[p].pc = "returned"

FileIds(m) == {m[k].fileId : k \in DOMAIN m}

C2_NeverReturnsStaleId ==
    \A p \in Procs :
        Returned(p) => call[p].result.fileId \notin call[p].goneAtStart

\* C2 (amended): a call that misses the session cache never returns an id
\* that was gone when it started; when the id recorded in persisted state
\* was gone, the call that returns has uploaded again and returns a new id.
C2_PersistedLookupRevalidates ==
    \A p \in Procs :
        (Returned(p) /\ call[p].via # "session") =>
            /\ call[p].result.fileId \notin call[p].goneAtStart
            /\ call[p].uploadedImage.fileId \in call[p].goneAtStart =>
                  /\ call[p].via = "upload"
                  /\ Count(call[p].log, "files.create") = 1
                  /\ call[p].result.fileId # call[p].uploadedImage.fileId

\* A call found a recorded id that was gone before it started, and returned
\* after uploading again.
C2_Witness ==
    \E p \in Procs :
        /\ Returned(p) /\ call[p].via = "upload"
        /\ call[p].uploadedImage.fileId \in call[p].goneAtStart

\* C3: a call that found an entry recorded for its key, did not adopt it
\* (files.get reported trashed or threw) and returned, has uploaded once;
\* the persisted entry of the key holds the new id, and the old id is neither
\* the result nor in the session cache nor in the persisted state.
C3_GoneAssetReplaced ==
    \A p \in Procs :
        (Returned(p) /\ call[p].uploadedImage # NoEntry
                     /\ call[p].via # "persisted") =>
            LET old == call[p].uploadedImage.fileId
                new == call[p].result.fileId
            IN /\ call[p].via = "upload"
               /\ Count(call[p].log, "files.create") = 1
               /\ new # old
               /\ Has(StateImages(pstate), Key(p))
               /\ StateImages(pstate)[Key(p)].fileId = new
               /\ old \notin FileIds(uploadedImages)
               /\ old \notin FileIds(StateImages(pstate))
               /\ old # StateFolderId(pstate)

\* A call replaced an entry whose file was trashed or deleted.
C3_Witness ==
    \E p \in Procs :
        /\ Returned(p) /\ call[p].via = "upload"
        /\ call[p].uploadedImage # NoEntry
        /\ call[p].uploadedImage.fileId \in GoneIds

\* The Drive resources that persisted state records.
Recorded ==
    {StateFolderId(pstate)} \cup FileIds(StateImages(pstate))

\* C4: when initialize and the resolve calls have ended, by return or by an
\* exception, every live Drive resource this client has created (image folder
\* or image file) is recorded in persisted state.
C4_CreatedIsRecorded ==
    Quiescent =>
        \A id \in DriveIds : drive[id].status = "live" => id \in Recorded

\* C5: a call that adopted a live recorded entry made exactly one state
\* load and one existence check and nothing else (no upload, no permission
\* call, no download, no state write); the session cache holds the recorded
\* entry for the key and the call returns it with cached = true.
C5_AdoptionOnlyChecks ==
    \A p \in Procs :
        (Returned(p) /\ call[p].via = "persisted") =>
            /\ call[p].log = <<"loadState", "files.get">>
            /\ Has(uploadedImages, Key(p))
            /\ uploadedImages[Key(p)] = call[p].uploadedImage
            /\ call[p].result = call[p].uploadedImage
            /\ call[p].result.fileId # NoId
            /\ call[p].cached

\* A call adopted a recorded entry.
C5_Witness ==
    \E p \in Procs : Returned(p) /\ call[p].via = "persisted"

\* C6: the step in which a call returns from the session cache changes
\* neither Drive nor persisted state nor the session cache nor the temp
\* directory; the call has made no backend or state-store call at all, and
\* it returns the cached entry with cached = true.
C6_SessionHitChangesNothing ==
    [][\A p \in Procs :
          (call'[p] # call[p] /\ call'[p].pc = "returned"
                              /\ call'[p].via = "session") =>
              /\ UNCHANGED <<drive, pstate, uploadedImages, disk, uploads>>
              /\ call'[p].log = <<>>
              /\ Has(uploadedImages, call'[p].imageHash)
              /\ call'[p].result = uploadedImages[call'[p].imageHash]
              /\ call'[p].cached]_vars

\* A call returned from the session cache.
C6_Witness ==
    \E p \in Procs : Returned(p) /\ call[p].via = "session"

\* The upload a call in progress has made.
UploadOf(p) == CHOOSE i \in DOMAIN uploads : uploads[i].id = call[p].fileId

HasKey(p) ==
    /\ call[p].pc \notin {"idle", "ui_convert", "ui_hash"}
    /\ call[p].imageHash # ""

C8_TempFilesRemoved ==
    \A p \in Procs :
        (call[p].fn = "uploadRemoteImage"
            /\ call[p].pc \in {"returned", "threw"}) =>
                /\ ~Has(disk, call[p].tempFilePath)
                /\ ~Has(disk, call[p].processedImagePath)

\* The calls whose conversion step is behind them.
Converted(p) ==
    \/ call[p].pc \in {"ui_hash", "ui_load", "ui_get", "ui_create",
                       "ui_perm", "ui_load2", "ui_update"}
    \/ call[p].pc \in {"ur_create", "ur_perm", "ur_cleanup"}

ConvertInput(p) ==
    IF call[p].fn = "uploadImage" THEN call[p].imagePath
    ELSE call[p].tempFilePath

\* C9: no call ends with an error of the conversion; after the conversion
\* step the processed path is the input path or the PNG path derived from
\* it, the input path for a non-SVG input, and the PNG path only if the PNG
\* was written; the call goes on.
C9_ConversionNeverAborts ==
    \A p \in Procs :
        /\ call[p].err # "conversion"
        /\ Converted(p) =>
              LET src == ConvertInput(p)
                  dst == call[p].processedImagePath
              IN /\ dst \in {src, PngPath(src)}
                 /\ src.ext # ".svg" => dst = src
                 /\ dst # src => Has(disk, dst)

\* An SVG whose conversion did not happen is being uploaded as it is.
C9_Witness ==
    \E p \in Procs :
        /\ call[p].pc = "ui_perm"
        /\ call[p].imagePath.ext = ".svg"
        /\ call[p].processedImagePath = call[p].imagePath

\* C10: a call throws a backend error only after the failing backend call
\* was attempted DOCFLU_RETRY_COUNT times.
C10_ThrowsOnlyAfterRetries ==
    \A p \in Procs :
        (call[p].pc = "threw" /\ call[p].err = "transient") =>
            Count(call[p].log, call[p].log[Len(call[p].log)])
                >= DOCFLU_RETRY_COUNT

\* A call waits at the await of the backend call its next action resolves:
\* the calls at the create step have a files.create in flight.
InFlightCreates ==
    Cardinality({p \in Procs : call[p].pc \in {"ui_create", "ur_create"}})

\* C11: the number of files.create calls in flight at the same time never
\* exceeds DOCFLU_CONCURRENT_UPLOADS, however many resolve calls were started
\* in parallel.
C11_UploadsCapped ==
    InFlightCreates <= DOCFLU_CONCURRENT_UPLOADS

\* The last n calls a call has made.
LastCalls(p, n) ==
    IF Len(call[p].log) < n THEN <<>>
    ELSE SubSeq(call[p].log, Len(call[p].log) - n + 1, Len(call[p].log))

\* C12: every id in persisted state (image folder, image files) and every id
\* returned to a caller is of a Drive resource that was made public, and the
\* url returned is the public url of that id; a call that uploaded made its
\* last calls in the order files.create, permissions.create, loadState,
\* updateState, and returned after them.
C12_PublicBeforeRecorded ==
    /\ \A id \in Recorded \ {NoId} : id \in DriveIds /\ drive[id].public
    /\ \A p \in Procs :
          Returned(p) =>
             /\ call[p].result.fileId \in DriveIds
             /\ drive[call[p].result.fileId].public
             /\ call[p].result.url = PublicUrl(call[p].result.fileId)
             /\ call[p].via = "upload" =>
                   LastCalls(p, 4) = <<"files.create", "permissions.create",
                                       "loadState", "updateState">>

\* uploadRemoteImage has uploaded, made the file public, recorded it and
\* returned.
C12_Witness ==
    \E p \in Procs :
        /\ Returned(p) /\ call[p].via = "upload"
        /\ call[p].fn = "uploadRemoteImage"
        /\ call[p].result.fileId \in FileIds(StateImages(pstate))

\* ---------------------------------------------------------------- C13
OpsOf(d) == {pass.log[i].op : i \in {k \in DOMAIN pass.log : pass.log[k].doc = d}}

LoggedOps == {pass.log[i].op : i \in DOMAIN pass.log}

\* C13: run idempotence.  A docs pass that starts right after a docs pass that
\* completed without a failed document, with no edit and no out-of-band
\* remote change in between or meanwhile, classifies every document it scans
\* as unchanged and makes no mutating backend call; it ends with every
\* document skipped.
C13_SecondRunIsNoOp ==
    (pass.mode = "docs" /\ pass.clean) =>
        /\ \A d \in DOMAIN pass.class : pass.class[d] = "unchanged"
        /\ LoggedOps \cap MutatingOps = {}
        /\ pass.todo = <<>> =>
              \A d \in DocPaths : /\ Has(pass.outcome, d)
                                  /\ pass.outcome[d] = "skipped"

\* A second docs pass has run to its end after a successful one.
C13_Witness ==
    /\ pass.mode = "docs"
    /\ pass.clean
    /\ pass.todo = <<>>
    /\ DOMAIN pass.class = DocPaths

C15_ForceReplaces ==
    pass.mode = "file" =>
        /\ \A d \in DOMAIN pass.outcome : pass.outcome[d] # "skipped"
        /\ \A j \in DOMAIN pass.log :
              (pass.log[j].op = "createPage" /\ Has(pass.before, pass.log[j].doc)) =>
                  \E i \in 1..(j - 1) :
                      /\ pass.log[i].op = "deletePage"
                      /\ pass.log[i].arg = pass.before[pass.log[j].doc].remoteId
        /\ \A d \in DOMAIN pass.outcome :
              pass.outcome[d] # "failed" =>
                  /\ Has(sstate.pages, d)
                  /\ sstate.pages[d].remoteId = Len(remote)
                  /\ remote[Len(remote)].kind = "page"
                  /\ Has(pass.before, d) =>
                        /\ sstate.pages[d].remoteId # pass.before[d].remoteId
                        /\ remote[pass.before[d].remoteId].status = "deleted"
                        /\ \A x \in DOMAIN sstate.pages :
                              sstate.pages[x].remoteId # pass.before[d].remoteId

\* A single-file pass replaced the page of a file whose hash had not changed.
C15_Witness ==
    /\ pass.mode = "file"
    /\ \E d \in DOMAIN pass.outcome :
          /\ pass.outcome[d] = "created"
          /\ pass.class[d] = "unchanged"
          /\ Has(pass.before, d)
          /\ remote[pass.before[d].remoteId].status = "deleted"

\* ---------------------------------------------------------------- C16
\* The containers of the current document's hierarchy path that the walk has
\* resolved so far, root first.
Resolved(ps) ==
    IF ps.mode = "file" THEN <<>>
    ELSE SubSeq(HierarchyPath(ps.cur), 1,
                Len(HierarchyPath(ps.cur)) - Len(ps.chain))

CreateOps == {"createContainer", "createPage"}

\* C16: top-down hierarchy ordering.  Whenever a createContainer or createPage
\* call is issued, the parent it names is the root, for a top-level resource,
\* or else the id that state.containers already holds, before the call, for
\* the container just above on the document's hierarchy path, and that id is
\* the id of a container that exists remotely.
C16_ParentRecordedFirst ==
    [][\A j \in DOMAIN pass'.log \ DOMAIN pass.log :
          pass'.log[j].op \in CreateOps =>
              LET r == Resolved(pass)
                  parent == pass'.log[j].arg
              IN IF r = <<>> THEN parent = RootId
                 ELSE /\ Has(sstate.containers, r[Len(r)])
                      /\ sstate.containers[r[Len(r)]].remoteId = parent
                      /\ parent \in RemoteIds
                      /\ remote[parent].kind = "container"]_vars

\* A nested container and then a page were created under recorded parents.
C16_Witness ==
    /\ \E j \in DOMAIN pass.log :
          pass.log[j].op = "createContainer" /\ pass.log[j].arg # RootId
    /\ \E j \in DOMAIN pass.log :
          pass.log[j].op = "createPage" /\ pass.log[j].arg # RootId

\* ---------------------------------------------------------------- C17
\* The documents of the pass: a docs pass takes them all, a single-file pass
\* the one it was started for.
PassDocs ==
    IF pass.mode = "docs" THEN DocPaths
    ELSE DOMAIN pass.class \cup {pass.todo[i] : i \in DOMAIN pass.todo}

Pending ==
    {pass.todo[i] : i \in DOMAIN pass.todo} \cup
        (IF pass.cur = "" THEN {} ELSE {pass.cur})

\* The entry of d is what it was when the pass began.
EntryKept(d) ==
    /\ Has(sstate.pages, d) <=> Has(pass.before, d)
    /\ Has(sstate.pages, d) => sstate.pages[d] = pass.before[d]

\* The force path deleted the prior page of d and cleared its entry.
EntryCleared(d) ==
    /\ pass.mode = "file"
    /\ Has(pass.before, d)
    /\ ~Has(sstate.pages, d)
    /\ "deletePage" \in OpsOf(d)

C19_CreatesOnlyIfGone ==
    ipc = "ensure_create" =>
        \/ StateFolderId(pstate) = NoId
        \/ FilesGet(StateFolderId(pstate)) # "live"

\* ---------------------------------------------------------------- C18
\* C18: at most one upload under parallel fan-out.  For a key that had no
\* session-cache entry and no persisted entry when the calls began, no two
\* files.create calls are issued, and the calls that returned for it return
\* one fileId.
C18_AtMostOneUpload ==
    /\ \A i, j \in DOMAIN uploads :
          (i # j /\ uploads[i].key = uploads[j].key) =>
              uploads[i].key = StaleKey
    /\ \A p, q \in Procs :
          (Returned(p) /\ Returned(q) /\ Key(p) = Key(q)) =>
              \/ Key(p) = StaleKey
              \/ call[p].result.fileId = call[q].result.fileId

\* ---------------------------------------------------------------- C20
\* C20: no lost state update.  Once every call has returned, a call that
\* uploaded for a key no other call resolved finds its key in persisted
\* state.googleDrive.uploadedImages with the fileId it returned.
C20_NoLostUpdate ==
    (\A p \in Procs : ~InProgress(p)) =>
        \A p \in Procs :
            (/\ Returned(p)
             /\ call[p].via = "upload"
             /\ \A q \in Procs \ {p} : Returned(q) /\ Key(q) # Key(p)) =>
                /\ Has(StateImages(pstate), Key(p))
                /\ StateImages(pstate)[Key(p)].fileId = call[p].result.fileId

\* ---------------------------------------------------------------- C21
\* The call missed the session cache: it went on to load the state.
MissedSession(p) == Count(call[p].log, "loadState") > 0

\* C21: a failed resolve leaves the records unchanged.  A call that missed
\* the session cache and then threw, at whatever step, has left no entry for
\* its key in the session cache.
C21_FailedCallLeavesNoEntry ==
    \A p \in Procs :
        (call[p].pc = "threw" /\ MissedSession(p)) =>
            ~Has(uploadedImages, Key(p))

\* ---------------------------------------------------------------- C22
\* C22: the session cache is backed by persisted state.  Whenever no call is
\* in progress, every key of this.uploadedImages has an entry in persisted
\* state.googleDrive.uploadedImages with the same fileId.
C22_CacheBackedByState ==
    Quiescent =>
        \A k \in DOMAIN uploadedImages :
            /\ Has(StateImages(pstate), k)
            /\ StateImages(pstate)[k].fileId = uploadedImages[k].fileId

\* ---------------------------------------------------------------- C23
\* C23: state writes preserve unrelated records.  The updateState of a call
\* that returns after an upload leaves every entry that persisted
\* uploadedImages held for another key as it was just before the write.
C23_WriteKeepsOtherEntries ==
    [][\A p \in Procs :
          (call[p].pc = "ui_update" /\ call'[p].pc = "returned") =>
              \A k \in DOMAIN StateImages(pstate) \ {Key(p)} :
                  /\ Has(StateImages(pstate'), k)
                  /\ StateImages(pstate')[k] = StateImages(pstate)[k]]_vars

\* ---------------------------------------------------------------- C24
\* The call issued drive.files.create for the file.
IssuedUpload(p) == Count(call[p].log, "files.create") > 0

\* The fields of the entries a map holds.
EntryFields(m) == UNION {DOMAIN m[k] : k \in DOMAIN m}

\* C24: the cached flag reports whether an upload happened.  A call that
\* returns has cached = false exactly when it issued files.create, and
\* cached = true exactly when its result came from the session cache or from
\* a persisted entry found live; no entry of the session cache or of persisted
\* uploadedImages has a cached field.
C24_CachedFlag ==
    /\ \A p \in Procs :
          Returned(p) =>
              /\ call[p].cached = FALSE <=> IssuedUpload(p)
              /\ call[p].cached = TRUE <=> call[p].via \in {"session", "persisted"}
              /\ call[p].via = "session" => call[p].log = <<>>
              /\ call[p].via = "persisted" =>
                    LastCalls(p, 2) = <<"loadState", "files.get">>
    /\ "cached" \notin EntryFields(uploadedImages)
    /\ "cached" \notin EntryFields(StateImages(pstate))

\* A call returned a persisted entry it found live, and the entry is in the
\* session cache.
C24_Witness ==
    \E p \in Procs :
        /\ Returned(p)
        /\ call[p].cached
        /\ call[p].via = "persisted"
        /\ ~IssuedUpload(p)
        /\ Has(uploadedImages, Key(p))

\* ---------------------------------------------------------------- C25
\* initialize returns true in this step.
InitializeReturns == ipc # "ready" /\ ipc' = "ready"

\* C25: the folder is established before uploads.  Whenever initialize has
\* returned true, this.imageFolderId is set, equals persisted
\* state.googleDrive.imageFolderId and is the id of a Drive folder, so every
\* files.create of an upload names the recorded folder as parent; and the step
\* in which initialize returns true is not a failing one and either found the
\* recorded folder not trashed or records the folder this initialize created.
C25_FolderEstablished ==
    /\ [](ipc = "ready" =>
            /\ imageFolderId # NoId
            /\ imageFolderId = StateFolderId(pstate)
            /\ imageFolderId \in DriveIds
            /\ drive[imageFolderId].kind = "folder")
    /\ [][InitializeReturns =>
            /\ events' = events
            /\ \/ /\ ipc = "ensure_get"
                  /\ FilesGet(imageFolderId) = "live"
                  /\ imageFolderId' = imageFolderId
                  /\ pstate' = pstate
               \/ /\ ipc = "ensure_update"
                  /\ imageFolderId = Len(drive)
                  /\ StateFolderId(pstate') = imageFolderId]_vars

\* In a client whose initialize returned true an upload has just been issued
\* into the recorded folder.
C25_Witness ==
    /\ ipc = "ready"
    /\ imageFolderId = StateFolderId(pstate)
    /\ \E p \in Procs :
          /\ call[p].pc \in {"ui_perm", "ur_perm"}
          /\ call[p].fileId > imageFolderId
====
